---- MODULE Spec2Model ----
(***************************************************************************)
(* Model of scripts/optimize-images.js: the pre-commit media optimizer.    *)
(* One run of main() is: discovery (staged paths, else a walk of origin/), *)
(* one convertImage call per discovered image, one convertVideo call per   *)
(* discovered video, one addToGit call per produced output.  The file      *)
(* system, the git index and every external call's outcome are the         *)
(* environment.  File names are kept as sequences of dot-separated         *)
(* components and directory names as sequences of chunks, so that          *)
(* path.extname, path.basename and String.startsWith are computed as the   *)
(* code computes them.                                                     *)
(***************************************************************************)
EXTENDS Integers, Sequences, FiniteSets, TLC

\* ------------------------------------------------------------------ bounds
MaxFaults == 2     \* external calls the environment lets fail, over both runs

\* ------------------------------------------------------- program constants
\* A directory is a sequence of segments, a segment a sequence of chunks.
ORIGIN_DIR == << <<"origin">> >>
IMAGES_DIR == << <<"images">> >>
IMAGE_EXTS_MEDIA == {"jpg", "jpeg", "png", "heic", "heif"}
VIDEO_EXTS_MEDIA == {"mov"}
SUPPORTED_EXTS == {"jpg", "jpeg", "png"}

Revisions == {"media", "imagesOnly"}

\* ------------------------------------------------------ the bounded world
DirX == << <<"origin">>, <<"x">> >>
DirY == << <<"origin">>, <<"y">> >>
DirBak == << <<"origin", "-bak">> >>

File(d, n) == [dir |-> d, name |-> n]

\* Every path the environment may hold, in the order readdir and git list them.
UPaths ==
  << File(ORIGIN_DIR, <<"a", "jpg">>),
     File(DirX, <<"a", "JPG">>),
     File(DirX, <<"b", "heic">>),
     File(DirY, <<"c", "mov">>),
     File(DirY, <<"n", "txt">>),
     File(DirBak, <<"d", "png">>) >>

Universe == {UPaths[i] : i \in 1..Len(UPaths)}

WatchedDirs == {ORIGIN_DIR, DirX, DirY}

\* Files that may be on disk (the media files under origin/), and paths the
\* staging index may list (a listed path need not be on disk).
SrcUniverse == {p \in Universe : p.dir \in WatchedDirs /\ p.name # <<"n", "txt">>}
IndexUniverse == {p \in Universe : p.dir # DirX}

SubDirs(d) == IF d = ORIGIN_DIR THEN <<DirX, DirY>> ELSE <<>>

SeqOfSet(S) == SelectSeq(UPaths, LAMBDA p : p \in S)

\* ------------------------------------------------------------ path helpers
Last(s) == s[Len(s)]
Front(s) == SubSeq(s, 1, Len(s) - 1)

toLowerCase(t) ==
  CASE t = "JPG" -> "jpg"
    [] t = "PNG" -> "png"
    [] t = "MOV" -> "mov"
    [] t = "HEIC" -> "heic"
    [] OTHER -> t

\* path.extname: the last component of a name that has a dot, else "".
extname(n) == IF Len(n) >= 2 THEN Last(n) ELSE ""

\* path.basename(name, ext): the suffix is removed only on an exact,
\* case-sensitive match.
basename(n, ext) == IF Len(n) >= 2 /\ Last(n) = ext THEN Front(n) ELSE n

RECURSIVE JoinSegs(_)
JoinSegs(d) ==
  IF d = <<>> THEN <<>>
  ELSE IF Len(d) = 1 THEN d[1]
  ELSE d[1] \o <<"/">> \o JoinSegs(Tail(d))

RECURSIVE JoinName(_)
JoinName(n) ==
  IF Len(n) = 1 THEN n ELSE <<n[1], ".">> \o JoinName(Tail(n))

\* The path as the string the code handles (chunks instead of characters).
PathString(p) == JoinSegs(p.dir) \o <<"/">> \o JoinName(p.name)

startsWith(s, prefix) ==
  Len(s) >= Len(prefix) /\ SubSeq(s, 1, Len(prefix)) = prefix

IMAGE_EXTS(rev) == IF rev = "media" THEN IMAGE_EXTS_MEDIA ELSE SUPPORTED_EXTS
VIDEO_EXTS(rev) == IF rev = "media" THEN VIDEO_EXTS_MEDIA ELSE {}

IsImage(rev, p) == toLowerCase(extname(p.name)) \in IMAGE_EXTS(rev)
IsVideo(rev, p) == toLowerCase(extname(p.name)) \in VIDEO_EXTS(rev)

\* Output names as the converters derive them (lines 104-105, 169-170).
avifPath(p) == basename(p.name, extname(p.name)) \o <<"avif">>
mp4Path(p) == basename(p.name, extname(p.name)) \o <<"mp4">>

\* Output names as walkDirectory derives them (lines 66-71, 83).
walkAvifPath(n) == basename(n, toLowerCase(extname(n))) \o <<"avif">>
walkMp4Path(n) == basename(n, toLowerCase(extname(n))) \o <<"mp4">>


\* ------------------------------------------------------------------- state
VARIABLES
  rev,              \* which revision of the script runs
  originExists,     \* whether origin/ exists
  src,              \* source-side files on disk
  dest,             \* file names present in images/
  tmp,              \* temporary PNG files present in /tmp
  index,            \* paths "git diff --cached --name-only" lists
  now,              \* Date.now(), as a logical clock
  run,              \* number of the current run
  pc,               \* main's position: start, images, videos, staging, done
  gitOK,            \* whether this run's staged-files query succeeded
  stagedMedia,      \* what getStagedMediaFiles returned in this run
  mode,             \* none, staged or fallback
  badDirs,          \* directories whose readdir failed in this run
  imagesToProcess,
  videosToProcess,
  idx,              \* loop index of the running for-loop
  convertedFiles,
  log,              \* this run's external calls, in order
  srcAtStart,       \* src when this run started
  destAtStart,      \* dest when this run started
  clean,            \* no external call of this run has failed
  faults,           \* failures the environment has injected so far
  exitCode          \* -1 while running, then the process exit status

vars ==
  << rev, originExists, src, dest, tmp, index, now, run, pc, gitOK,
     stagedMedia, mode, badDirs, imagesToProcess, videosToProcess, idx,
     convertedFiles, log, srcAtStart, destAtStart, clean, faults,
     exitCode >>

NoPath == File(<<>>, <<>>)
\* One external call: what, on which source, giving which file, when, how.
Ev(e, p, out, t, ok) == [e |-> e, p |-> p, out |-> out, t |-> t, ok |-> ok]
Empty == [images |-> <<>>, videos |-> <<>>]
Null == [ok |-> FALSE, images |-> <<>>, videos |-> <<>>]

\* ---------------------------------------------------------------- discovery
\* getStagedMediaFiles on a successful "git diff --cached --name-only".
getStagedMediaFiles(rv, staged) ==
  LET stagedFiles == SeqOfSet(staged)
      kept == SelectSeq(stagedFiles,
                LAMBDA f : startsWith(PathString(f), JoinSegs(ORIGIN_DIR)))
  IN [ok |-> TRUE,
      images |-> SelectSeq(kept, LAMBDA f : IsImage(rv, f)),
      videos |-> SelectSeq(kept, LAMBDA f : ~IsImage(rv, f) /\ IsVideo(rv, f))]

RECURSIVE walkDirectory(_, _, _, _, _)
RECURSIVE walkSubDirs(_, _, _, _, _)

walkSubDirs(rv, subs, files, dst, bad) ==
  IF subs = <<>> THEN Empty
  ELSE LET h == walkDirectory(rv, subs[1], files, dst, bad)
           t == walkSubDirs(rv, Tail(subs), files, dst, bad)
       IN [images |-> h.images \o t.images, videos |-> h.videos \o t.videos]

\* A failed readdir of a subdirectory empties the parent's result as well.
walkDirectory_propagate(rv, dir, files, dst, bad) ==
  IF dir \in bad \/ \E i \in 1..Len(SubDirs(dir)) : SubDirs(dir)[i] \in bad
  THEN Empty
  ELSE LET entries == SelectSeq(UPaths, LAMBDA p : p \in files /\ p.dir = dir)
           sub == walkSubDirs(rv, SubDirs(dir), files, dst, bad)
       IN [images |-> SelectSeq(entries, LAMBDA p :
                        IsImage(rv, p) /\ walkAvifPath(p.name) \notin dst)
                      \o sub.images,
           videos |-> SelectSeq(entries, LAMBDA p :
                        ~IsImage(rv, p) /\ IsVideo(rv, p)
                        /\ walkMp4Path(p.name) \notin dst)
                      \o sub.videos]

\* walkDirectory(dir): bad holds the directories whose readdir throws.
walkDirectory(rv, dir, files, dst, bad) ==
  IF dir \in bad THEN Empty
  ELSE LET entries == SelectSeq(UPaths, LAMBDA p : p \in files /\ p.dir = dir)
           sub == walkSubDirs(rv, SubDirs(dir), files, dst, bad)
       IN [images |-> SelectSeq(entries, LAMBDA p :
                        IsImage(rv, p) /\ walkAvifPath(p.name) \notin dst)
                      \o sub.images,
           videos |-> SelectSeq(entries, LAMBDA p :
                        ~IsImage(rv, p) /\ IsVideo(rv, p)
                        /\ walkMp4Path(p.name) \notin dst)
                      \o sub.videos]

\* The staged list and the walk are merged whenever the walk finds something.
discover_alwaysWalk(rv, sm, files, dst, bad) ==
  LET w == walkDirectory(rv, ORIGIN_DIR, files, dst, bad)
  IN IF sm.ok /\ (Len(sm.images) > 0 \/ Len(sm.videos) > 0)
     THEN [mode |-> "staged", walked |-> TRUE,
           images |-> sm.images \o SelectSeq(w.images, LAMBDA p :
                        \A i \in 1..Len(sm.images) : sm.images[i] # p),
           videos |-> sm.videos \o SelectSeq(w.videos, LAMBDA p :
                        \A i \in 1..Len(sm.videos) : sm.videos[i] # p)]
     ELSE [mode |-> "fallback", walked |-> TRUE,
           images |-> w.images, videos |-> w.videos]

\* main's choice between the staged list and the walk (lines 242-252).
discover(rv, sm, files, dst, bad) ==
  IF sm.ok /\ (Len(sm.images) > 0 \/ Len(sm.videos) > 0)
  THEN [mode |-> "staged", walked |-> FALSE,
        images |-> sm.images, videos |-> sm.videos]
  ELSE LET w == walkDirectory(rv, ORIGIN_DIR, files, dst, bad)
       IN [mode |-> "fallback", walked |-> TRUE,
           images |-> w.images, videos |-> w.videos]

\* --------------------------------------------------------------- conversion
\* The outcomes the environment chooses for one convertImage/convertVideo call.
Outcomes ==
  [mkdir : BOOLEAN, sips : {"ok", "fail", "partial"}, encode : BOOLEAN,
   rmTemp : BOOLEAN, rmSrc : BOOLEAN]

Opt(cond, ev) == IF cond THEN <<ev>> ELSE <<>>
Count(b) == IF b THEN 1 ELSE 0

\* The source is unlinked whether or not the encode succeeded.
convertImage_unlinkAlways(rv, p, o, files, dst, temps, t) ==
  LET name == basename(p.name, extname(p.name))
      avif == name \o <<"avif">>
      ext == toLowerCase(extname(p.name))
      heic == rv = "media" /\ ext \in {"heic", "heif"}
      tempFile == [name |-> name, t |-> t]
      mkdirOK == o.mkdir
      sipsRan == mkdirOK /\ heic
      sipsOK == sipsRan /\ o.sips = "ok" /\ p \in files
      tempMade == sipsRan /\ (sipsOK \/ (o.sips = "partial" /\ p \in files))
      temps1 == IF tempMade THEN temps \cup {tempFile} ELSE temps
      sharpRan == mkdirOK /\ (~heic \/ sipsOK)
      sharpOK == sharpRan /\ o.encode /\ (heic \/ p \in files)
      cleanupRan == sipsRan
      rmTempOK == cleanupRan /\ o.rmTemp /\ tempFile \in temps1
      temps2 == IF rmTempOK THEN temps1 \ {tempFile} ELSE temps1
      rmSrcOK == o.rmSrc /\ p \in files
  IN [src |-> IF rmSrcOK THEN files \ {p} ELSE files,
      dest |-> IF sharpOK THEN dst \cup {avif} ELSE dst,
      tmp |-> temps2,
      convertedFiles |-> IF sharpOK THEN <<avif>> ELSE <<>>,
      events |-> <<Ev("begin", p, <<>>, t, TRUE), Ev("mkdir", p, <<>>, t, mkdirOK)>>
                 \o Opt(sipsRan, Ev("sips", p, name, t, sipsOK))
                 \o Opt(sharpRan, Ev("encode", p, avif, t, sharpOK))
                 \o Opt(cleanupRan, Ev("rmTemp", p, name, t, rmTempOK))
                 \o Opt(TRUE, Ev("rmSrc", p, <<>>, t, rmSrcOK))
                 \o <<Ev("end", p, <<>>, t, TRUE)>>,
      clean |-> mkdirOK /\ sharpOK /\ rmSrcOK /\ (heic => sipsOK /\ rmTempOK),
      faults |-> Count(~o.mkdir)
                 + Count(sipsRan /\ p \in files /\ o.sips # "ok")
                 + Count(sharpRan /\ (heic \/ p \in files) /\ ~o.encode)
                 + Count(cleanupRan /\ tempFile \in temps1 /\ ~o.rmTemp)
                 + Count(p \in files /\ ~o.rmSrc),
      \* o names a failure only for a call that ran and could have succeeded
      canonical |-> /\ (o.sips # "ok" => sipsRan /\ p \in files)
                    /\ (~o.encode => sharpRan /\ (heic \/ p \in files))
                    /\ (~o.rmTemp => cleanupRan /\ tempFile \in temps1)
                    /\ (~o.rmSrc => p \in files)]

\* The temporary file is removed on the success path only, not in a finally.
convertImage_noFinally(rv, p, o, files, dst, temps, t) ==
  LET name == basename(p.name, extname(p.name))
      avif == name \o <<"avif">>
      ext == toLowerCase(extname(p.name))
      heic == rv = "media" /\ ext \in {"heic", "heif"}
      tempFile == [name |-> name, t |-> t]
      mkdirOK == o.mkdir
      sipsRan == mkdirOK /\ heic
      sipsOK == sipsRan /\ o.sips = "ok" /\ p \in files
      tempMade == sipsRan /\ (sipsOK \/ (o.sips = "partial" /\ p \in files))
      temps1 == IF tempMade THEN temps \cup {tempFile} ELSE temps
      sharpRan == mkdirOK /\ (~heic \/ sipsOK)
      sharpOK == sharpRan /\ o.encode /\ (heic \/ p \in files)
      cleanupRan == sipsRan /\ sharpOK
      rmTempOK == cleanupRan /\ o.rmTemp /\ tempFile \in temps1
      temps2 == IF rmTempOK THEN temps1 \ {tempFile} ELSE temps1
      rmSrcOK == sharpOK /\ o.rmSrc /\ p \in files
  IN [src |-> IF rmSrcOK THEN files \ {p} ELSE files,
      dest |-> IF sharpOK THEN dst \cup {avif} ELSE dst,
      tmp |-> temps2,
      convertedFiles |-> IF sharpOK THEN <<avif>> ELSE <<>>,
      events |-> <<Ev("begin", p, <<>>, t, TRUE), Ev("mkdir", p, <<>>, t, mkdirOK)>>
                 \o Opt(sipsRan, Ev("sips", p, name, t, sipsOK))
                 \o Opt(sharpRan, Ev("encode", p, avif, t, sharpOK))
                 \o Opt(cleanupRan, Ev("rmTemp", p, name, t, rmTempOK))
                 \o Opt(sharpOK, Ev("rmSrc", p, <<>>, t, rmSrcOK))
                 \o <<Ev("end", p, <<>>, t, TRUE)>>,
      clean |-> mkdirOK /\ sharpOK /\ rmSrcOK /\ (heic => sipsOK /\ rmTempOK),
      faults |-> Count(~o.mkdir)
                 + Count(sipsRan /\ p \in files /\ o.sips # "ok")
                 + Count(sharpRan /\ (heic \/ p \in files) /\ ~o.encode)
                 + Count(cleanupRan /\ tempFile \in temps1 /\ ~o.rmTemp)
                 + Count(sharpOK /\ p \in files /\ ~o.rmSrc),
      \* o names a failure only for a call that ran and could have succeeded
      canonical |-> /\ (o.sips # "ok" => sipsRan /\ p \in files)
                    /\ (~o.encode => sharpRan /\ (heic \/ p \in files))
                    /\ (~o.rmTemp => cleanupRan /\ tempFile \in temps1)
                    /\ (~o.rmSrc => sharpOK /\ p \in files)]

\* convertImage(sourcePath): o are the outcomes of its external calls, t is
\* Date.now().  A call on a missing file fails whatever o says.
convertImage(rv, p, o, files, dst, temps, t) ==
  LET name == basename(p.name, extname(p.name))
      avif == name \o <<"avif">>
      ext == toLowerCase(extname(p.name))
      heic == rv = "media" /\ ext \in {"heic", "heif"}
      tempFile == [name |-> name, t |-> t]
      mkdirOK == o.mkdir
      sipsRan == mkdirOK /\ heic
      sipsOK == sipsRan /\ o.sips = "ok" /\ p \in files
      tempMade == sipsRan /\ (sipsOK \/ (o.sips = "partial" /\ p \in files))
      temps1 == IF tempMade THEN temps \cup {tempFile} ELSE temps
      sharpRan == mkdirOK /\ (~heic \/ sipsOK)
      sharpOK == sharpRan /\ o.encode /\ (heic \/ p \in files)
      cleanupRan == sipsRan
      rmTempOK == cleanupRan /\ o.rmTemp /\ tempFile \in temps1
      temps2 == IF rmTempOK THEN temps1 \ {tempFile} ELSE temps1
      rmSrcOK == sharpOK /\ o.rmSrc /\ p \in files
  IN [src |-> IF rmSrcOK THEN files \ {p} ELSE files,
      dest |-> IF sharpOK THEN dst \cup {avif} ELSE dst,
      tmp |-> temps2,
      convertedFiles |-> IF sharpOK THEN <<avif>> ELSE <<>>,
      events |-> <<Ev("begin", p, <<>>, t, TRUE), Ev("mkdir", p, <<>>, t, mkdirOK)>>
                 \o Opt(sipsRan, Ev("sips", p, name, t, sipsOK))
                 \o Opt(sharpRan, Ev("encode", p, avif, t, sharpOK))
                 \o Opt(cleanupRan, Ev("rmTemp", p, name, t, rmTempOK))
                 \o Opt(sharpOK, Ev("rmSrc", p, <<>>, t, rmSrcOK))
                 \o <<Ev("end", p, <<>>, t, TRUE)>>,
      clean |-> mkdirOK /\ sharpOK /\ rmSrcOK /\ (heic => sipsOK /\ rmTempOK),
      faults |-> Count(~o.mkdir)
                 + Count(sipsRan /\ p \in files /\ o.sips # "ok")
                 + Count(sharpRan /\ (heic \/ p \in files) /\ ~o.encode)
                 + Count(cleanupRan /\ tempFile \in temps1 /\ ~o.rmTemp)
                 + Count(sharpOK /\ p \in files /\ ~o.rmSrc),
      \* o names a failure only for a call that ran and could have succeeded
      canonical |-> /\ (o.sips # "ok" => sipsRan /\ p \in files)
                    /\ (~o.encode => sharpRan /\ (heic \/ p \in files))
                    /\ (~o.rmTemp => cleanupRan /\ tempFile \in temps1)
                    /\ (~o.rmSrc => sharpOK /\ p \in files)]

\* The source video is left in place after a successful transcode.
convertVideo_keepSource(rv, p, o, files, dst, temps, t) ==
  LET name == basename(p.name, extname(p.name))
      mp4 == name \o <<"mp4">>
      mkdirOK == o.mkdir
      ffmpegOK == mkdirOK /\ o.encode /\ p \in files
      rmSrcOK == FALSE
  IN [src |-> IF rmSrcOK THEN files \ {p} ELSE files,
      dest |-> IF ffmpegOK THEN dst \cup {mp4} ELSE dst,
      tmp |-> temps,
      convertedFiles |-> IF ffmpegOK THEN <<mp4>> ELSE <<>>,
      events |-> <<Ev("begin", p, <<>>, t, TRUE), Ev("mkdir", p, <<>>, t, mkdirOK)>>
                 \o Opt(mkdirOK, Ev("encode", p, mp4, t, ffmpegOK))
                 \o Opt(FALSE, Ev("rmSrc", p, <<>>, t, rmSrcOK))
                 \o <<Ev("end", p, <<>>, t, TRUE)>>,
      clean |-> ffmpegOK,
      faults |-> Count(~o.mkdir)
                 + Count(mkdirOK /\ p \in files /\ ~o.encode)
                 + 0,
      canonical |-> /\ o.sips = "ok" /\ o.rmTemp
                    /\ (~o.encode => mkdirOK /\ p \in files)
                    /\ o.rmSrc]

\* convertVideo(sourcePath): the ffmpeg run is awaited through a promise.
convertVideo(rv, p, o, files, dst, temps, t) ==
  LET name == basename(p.name, extname(p.name))
      mp4 == name \o <<"mp4">>
      mkdirOK == o.mkdir
      ffmpegOK == mkdirOK /\ o.encode /\ p \in files
      rmSrcOK == ffmpegOK /\ o.rmSrc
  IN [src |-> IF rmSrcOK THEN files \ {p} ELSE files,
      dest |-> IF ffmpegOK THEN dst \cup {mp4} ELSE dst,
      tmp |-> temps,
      convertedFiles |-> IF ffmpegOK THEN <<mp4>> ELSE <<>>,
      events |-> <<Ev("begin", p, <<>>, t, TRUE), Ev("mkdir", p, <<>>, t, mkdirOK)>>
                 \o Opt(mkdirOK, Ev("encode", p, mp4, t, ffmpegOK))
                 \o Opt(ffmpegOK, Ev("rmSrc", p, <<>>, t, rmSrcOK))
                 \o <<Ev("end", p, <<>>, t, TRUE)>>,
      clean |-> ffmpegOK /\ rmSrcOK,
      faults |-> Count(~o.mkdir)
                 + Count(mkdirOK /\ p \in files /\ ~o.encode)
                 + Count(ffmpegOK /\ ~o.rmSrc),
      canonical |-> /\ o.sips = "ok" /\ o.rmTemp
                    /\ (~o.encode => mkdirOK /\ p \in files)
                    /\ (~o.rmSrc => ffmpegOK)]

\* The failure of "git add" is not caught and escapes main.
addToGit_throws(filePath, ok) ==
  [events |-> <<Ev("stage", NoPath, filePath, 0, ok)>>, thrown |-> ~ok]

\* addToGit(filePath): the failure of "git add" is caught and logged.
addToGit(filePath, ok) ==
  [events |-> <<Ev("stage", NoPath, filePath, 0, ok)>>, thrown |-> FALSE]

\* -------------------------------------------------------------------- main
Init ==
  /\ rev \in Revisions
  /\ originExists \in BOOLEAN
  /\ src \in SUBSET SrcUniverse
  /\ originExists = FALSE => src = {}
  /\ dest = {}
  /\ index \in SUBSET IndexUniverse
  /\ tmp = {}
  /\ now = 0
  /\ run = 1
  /\ pc = "start"
  /\ gitOK = FALSE
  /\ stagedMedia = Null
  /\ mode = "none"
  /\ badDirs = {}
  /\ imagesToProcess = <<>>
  /\ videosToProcess = <<>>
  /\ idx = 1
  /\ convertedFiles = <<>>
  /\ log = <<>>
  /\ srcAtStart = src
  /\ destAtStart = dest
  /\ clean = TRUE
  /\ faults = 0
  /\ exitCode = -1

\* Where main goes once the image loop has reached position i.
AfterImages(imgs, vids, conv, i) ==
  IF i <= Len(imgs) THEN "images"
  ELSE IF Len(vids) > 0 THEN "videos"
  ELSE IF Len(conv) > 0 THEN "staging"
  ELSE "done"

AfterVideos(vids, conv, i) ==
  IF i <= Len(vids) THEN "videos"
  ELSE IF Len(conv) > 0 THEN "staging"
  ELSE "done"

Exit(p) == IF p = "done" THEN 0 ELSE -1

\* main, lines 228-235: origin/ is absent, a normal early exit.
MainNoOrigin ==
  /\ pc = "start"
  /\ ~originExists
  /\ pc' = "done"
  /\ exitCode' = 0
  /\ UNCHANGED << rev, originExists, src, dest, tmp, index, now, run, gitOK,
                  stagedMedia, mode, badDirs, imagesToProcess,
                  videosToProcess, idx, convertedFiles, log, srcAtStart,
                  destAtStart, clean, faults >>

\* main, lines 237-259: discovery, and the exit when nothing was found.
Discover ==
  /\ pc = "start"
  /\ originExists
  /\ \E g \in BOOLEAN, bad \in SUBSET WatchedDirs :
       LET sm == IF g THEN getStagedMediaFiles(rev, index) ELSE Null
           d == discover(rev, sm, src, dest, bad)
       IN /\ faults + Count(~g) + Cardinality(bad) <= MaxFaults
          /\ faults' = faults + Count(~g) + Cardinality(bad)
          /\ ~d.walked => bad = {}
          /\ ORIGIN_DIR \in bad => bad = {ORIGIN_DIR}
          /\ gitOK' = g
          /\ stagedMedia' = sm
          /\ mode' = d.mode
          /\ badDirs' = bad
          /\ imagesToProcess' = d.images
          /\ videosToProcess' = d.videos
          /\ clean' = (g /\ bad = {})
          /\ log' = <<Ev("discover", NoPath, <<>>, 0, g)>>
                     \o Opt(d.walked, Ev("walk", NoPath, <<>>, 0, bad = {}))
          /\ pc' = AfterImages(d.images, d.videos, <<>>, 1)
          /\ exitCode' = Exit(pc')
  /\ idx' = 1
  /\ UNCHANGED << rev, originExists, src, dest, tmp, index, now, run,
                  convertedFiles, srcAtStart, destAtStart >>

\* Each output is staged as soon as its conversion returns.
ConvertImageStep_stageEach ==
  /\ pc = "images"
  /\ \E o \in Outcomes :
       LET r == convertImage(rev, imagesToProcess[idx], o, src, dest, tmp, now)
           conv == convertedFiles \o r.convertedFiles
       IN /\ r.canonical
          /\ faults + r.faults <= MaxFaults
          /\ faults' = faults + r.faults
          /\ src' = r.src
          /\ dest' = r.dest
          /\ tmp' = r.tmp
          /\ convertedFiles' = conv
          /\ log' = log \o r.events
                     \o (IF r.convertedFiles = <<>> THEN <<>>
                         ELSE addToGit(r.convertedFiles[1], TRUE).events)
          /\ clean' = (clean /\ r.clean)
          /\ pc' = AfterImages(imagesToProcess, videosToProcess, conv, idx + 1)
          /\ exitCode' = Exit(pc')
  /\ idx' = IF idx + 1 <= Len(imagesToProcess) THEN idx + 1 ELSE 1
  /\ now' = now + 1
  /\ UNCHANGED << rev, originExists, index, run, gitOK, stagedMedia, mode,
                  badDirs, imagesToProcess, videosToProcess, srcAtStart,
                  destAtStart >>

\* main, lines 264-271: one iteration of the image loop.
ConvertImageStep ==
  /\ pc = "images"
  /\ \E o \in Outcomes :
       LET r == convertImage(rev, imagesToProcess[idx], o, src, dest, tmp, now)
           conv == convertedFiles \o r.convertedFiles
       IN /\ r.canonical
          /\ faults + r.faults <= MaxFaults
          /\ faults' = faults + r.faults
          /\ src' = r.src
          /\ dest' = r.dest
          /\ tmp' = r.tmp
          /\ convertedFiles' = conv
          /\ log' = log \o r.events
          /\ clean' = (clean /\ r.clean)
          /\ pc' = AfterImages(imagesToProcess, videosToProcess, conv, idx + 1)
          /\ exitCode' = Exit(pc')
  /\ idx' = IF idx + 1 <= Len(imagesToProcess) THEN idx + 1 ELSE 1
  /\ now' = now + 1
  /\ UNCHANGED << rev, originExists, index, run, gitOK, stagedMedia, mode,
                  badDirs, imagesToProcess, videosToProcess, srcAtStart,
                  destAtStart >>

\* main, lines 274-281: one iteration of the video loop.
ConvertVideoStep ==
  /\ pc = "videos"
  /\ \E o \in Outcomes :
       LET r == convertVideo(rev, videosToProcess[idx], o, src, dest, tmp, now)
           conv == convertedFiles \o r.convertedFiles
       IN /\ r.canonical
          /\ faults + r.faults <= MaxFaults
          /\ faults' = faults + r.faults
          /\ src' = r.src
          /\ dest' = r.dest
          /\ tmp' = r.tmp
          /\ convertedFiles' = conv
          /\ log' = log \o r.events
          /\ clean' = (clean /\ r.clean)
          /\ pc' = AfterVideos(videosToProcess, conv, idx + 1)
          /\ exitCode' = Exit(pc')
  /\ idx' = IF idx + 1 <= Len(videosToProcess) THEN idx + 1 ELSE 1
  /\ now' = now + 1
  /\ UNCHANGED << rev, originExists, index, run, gitOK, stagedMedia, mode,
                  badDirs, imagesToProcess, videosToProcess, srcAtStart,
                  destAtStart >>

\* main, lines 284-289: one iteration of the staging loop.
AddToGitStep ==
  /\ pc = "staging"
  /\ \E ok \in BOOLEAN :
       LET r == addToGit(convertedFiles[idx], ok)
       IN /\ faults + Count(~ok) <= MaxFaults
          /\ faults' = faults + Count(~ok)
          /\ log' = log \o r.events
          /\ clean' = (clean /\ ok)
          /\ pc' = IF r.thrown THEN "crashed"
                   ELSE IF idx + 1 <= Len(convertedFiles) THEN "staging"
                   ELSE "done"
          /\ exitCode' = IF r.thrown THEN 1 ELSE Exit(pc')
  /\ idx' = IF idx + 1 <= Len(convertedFiles) THEN idx + 1 ELSE 1
  /\ UNCHANGED << rev, originExists, src, dest, tmp, index, now, run, gitOK,
                  stagedMedia, mode, badDirs, imagesToProcess,
                  videosToProcess, convertedFiles, srcAtStart, destAtStart >>

\* The hook fires again: the next run of the script starts from what the
\* previous one left on disk.  The outputs staged meanwhile lie in images/
\* and carry no recognized extension, so the listing of the index that
\* matters to discovery is unchanged.
NextRun ==
  /\ pc = "done"
  /\ run = 1
  /\ run' = run + 1
  /\ pc' = "start"
  /\ gitOK' = FALSE
  /\ stagedMedia' = Null
  /\ mode' = "none"
  /\ badDirs' = {}
  /\ imagesToProcess' = <<>>
  /\ videosToProcess' = <<>>
  /\ idx' = 1
  /\ convertedFiles' = <<>>
  /\ log' = <<>>
  /\ srcAtStart' = src
  /\ destAtStart' = dest
  /\ clean' = TRUE
  /\ exitCode' = -1
  /\ UNCHANGED << rev, originExists, src, dest, tmp, index, now, faults >>

Next ==
  \/ MainNoOrigin
  \/ Discover
  \/ ConvertImageStep
  \/ ConvertVideoStep
  \/ AddToGitStep
  \/ NextRun

Spec == Init /\ [][Next]_vars

\* ------------------------------------------------------- reading the state
SeqSet(q) == {q[i] : i \in 1..Len(q)}
Queue == SeqSet(imagesToProcess) \cup SeqSet(videosToProcess)
At(e) == {i \in 1..Len(log) : log[i].e = e}
AtFor(e, p) == {i \in At(e) : log[i].p = p}
Attempted(p) == AtFor("begin", p) # {}
Returned(p) == AtFor("end", p) # {}
Produced(p) == \E i \in AtFor("encode", p) : log[i].ok
\* The outputs handed to addToGit, and the outputs produced, in order.
StagedSeq ==
  LET evs == SelectSeq(log, LAMBDA ev : ev.e = "stage")
  IN [i \in 1..Len(evs) |-> evs[i].out]
ProducedSeq ==
  LET evs == SelectSeq(log, LAMBDA ev : ev.e = "encode" /\ ev.ok)
  IN [i \in 1..Len(evs) |-> evs[i].out]
BegunSeq ==
  LET evs == SelectSeq(log, LAMBDA ev : ev.e = "begin")
  IN [i \in 1..Len(evs) |-> evs[i].p]
\* Really located under the watched directory, whatever its name starts with.
UnderOrigin(p) == Len(p.dir) >= 1 /\ p.dir[1] = ORIGIN_DIR[1]
\* The WebP counterpart the specification names for an image.
webpPath(p) == basename(p.name, extname(p.name)) \o <<"webp">>
Recognized(p) == IsImage(rev, p) \/ IsVideo(rev, p)
\* The output a source converts to, by its basename.
OutputOf(p) == IF IsImage(rev, p) THEN avifPath(p) ELSE mp4Path(p)
\* The output walkDirectory looks for before it lists a file.
WalkOutputOf(p) ==
  IF IsImage(rev, p) THEN walkAvifPath(p.name) ELSE walkMp4Path(p.name)
\* The watched directories on the way from origin/ to the file.
Ancestors(p) == {SubSeq(p.dir, 1, k) : k \in 1..Len(p.dir)} \cap WatchedDirs

\* ------------------------------------------------------------------ claims

C2_AllSucceedAvifOnly ==
  (pc = "done" /\ mode # "none" /\ clean) =>
    /\ \A p \in SeqSet(imagesToProcess) : avifPath(p) \in dest /\ p \notin src
    /\ \A p \in SeqSet(videosToProcess) : mp4Path(p) \in dest /\ p \notin src
    /\ StagedSeq = [i \in 1..Len(imagesToProcess) |-> avifPath(imagesToProcess[i])]
                   \o [i \in 1..Len(videosToProcess) |-> mp4Path(videosToProcess[i])]
    /\ \A p \in SeqSet(imagesToProcess) : webpPath(p) \notin dest

\* Two images and a video were found, converted, deleted and staged.
C2_Witness ==
  /\ pc = "done" /\ clean /\ mode = "fallback"
  /\ Len(imagesToProcess) = 2 /\ Len(videosToProcess) = 1
  /\ Cardinality(At("stage")) = 3
  /\ Queue \cap src = {}

\* C2 as stated: every discovered image also has a .webp in images/, and two
\* outputs per image are staged.
C2_AllSucceedAvifAndWebp ==
  (pc = "done" /\ mode # "none" /\ clean) =>
    /\ \A p \in SeqSet(imagesToProcess) :
         avifPath(p) \in dest /\ webpPath(p) \in dest /\ p \notin src
    /\ \A p \in SeqSet(videosToProcess) : mp4Path(p) \in dest /\ p \notin src
    /\ Cardinality(At("stage")) = 2 * Len(imagesToProcess) + Len(videosToProcess)

\* C3: in a second run that discovers by the walk, no source whose output
\* (same basename) was already in images/ when the run started is converted,
\* deleted or staged again.
C3_SecondRunSkipsConverted ==
  (run = 2 /\ mode = "fallback") =>
    \A p \in Universe :
      (Recognized(p) /\ OutputOf(p) \in destAtStart) =>
        /\ p \notin Queue
        /\ ~Attempted(p)
        /\ (p \in srcAtStart => p \in src)

\* C4: a source whose output (same basename) already exists is never listed
\* by the walk, and is listed by staged-path discovery whenever the staged
\* list names it.
C4_WalkSkipsStagedKeeps ==
  /\ mode = "fallback" =>
       \A p \in Queue : OutputOf(p) \notin destAtStart
  /\ mode = "staged" =>
       \A p \in index :
         (UnderOrigin(p) /\ Recognized(p) /\ OutputOf(p) \in destAtStart) =>
           /\ p \in Queue
           /\ pc = "done" => Attempted(p)

\* C5: staged-path discovery returns exactly the staged paths located under
\* origin/ with a recognized extension, images and videos apart; a path in a
\* sibling directory is never returned.
C5_StagedExactlyUnderOrigin ==
  (mode # "none" /\ gitOK) =>
    /\ stagedMedia.images =
         SeqOfSet({p \in index : UnderOrigin(p) /\ IsImage(rev, p)})
    /\ stagedMedia.videos =
         SeqOfSet({p \in index : UnderOrigin(p) /\ IsVideo(rev, p)})

\* C6: when a readdir fails during the walk, only the failed directory's
\* subtree contributes no files: every recognized file of a directory that was
\* read, for which the walk finds no output, is listed and gets its
\* conversion, and the run ends normally.
C6_ReadFailureIsolated ==
  mode = "fallback" =>
    /\ \A p \in srcAtStart :
         ( /\ UnderOrigin(p) /\ Recognized(p)
           /\ Ancestors(p) \cap badDirs = {}
           /\ WalkOutputOf(p) \notin destAtStart ) =>
           /\ p \in Queue
           /\ pc = "done" => Attempted(p)
    /\ \A p \in Queue : Ancestors(p) \cap badDirs = {}
    /\ pc # "crashed"
    /\ pc = "done" => exitCode = 0

\* origin/x could not be read and held a file; origin/a.jpg and
\* origin/y/c.mov were still found and converted.
C6_Witness ==
  /\ mode = "fallback" /\ pc = "done"
  /\ badDirs = {DirX}
  /\ \E p \in srcAtStart : p.dir = DirX /\ Recognized(p)
  /\ Attempted(File(ORIGIN_DIR, <<"a", "jpg">>))
  /\ Attempted(File(DirY, <<"c", "mov">>))

\* C7: whatever encodes, source deletions and staging calls fail, every
\* discovered file gets its conversion attempt, every produced output gets
\* its staging attempt, and the run ends with exit status 0; no failure
\* escapes main.
C7_NoFailureAborts ==
  /\ pc # "crashed"
  /\ exitCode \in {-1, 0}
  /\ ProducedSeq = convertedFiles
  /\ pc = "done" =>
       /\ exitCode = 0
       /\ \A p \in Queue : Attempted(p) /\ Returned(p)
       /\ StagedSeq = convertedFiles

\* A run with a failed encode and a failed staging call that went on to
\* convert and stage the rest.
C7_Witness ==
  /\ pc = "done" /\ exitCode = 0
  /\ \E i \in At("encode") : ~log[i].ok
  /\ \E i \in At("stage") : ~log[i].ok /\ \E j \in At("stage") : j > i

\* C8: discovery precedes every conversion; every image is converted before
\* any video; a conversion's calls lie between its begin and its return and no
\* other conversion begins in between; staging starts only after the last
\* conversion returned and goes over the produced outputs in their order.
C8_FixedOrder ==
  /\ log # <<>> => log[1].e = "discover"
  /\ \A i \in 1..Len(log) : i > 1 => log[i].e # "discover"
  /\ BegunSeq = SubSeq(imagesToProcess \o videosToProcess, 1, Len(BegunSeq))
  /\ \A i \in At("begin") :
       \E j \in AtFor("end", log[i].p) :
         /\ j > i
         /\ \A k \in (i + 1)..(j - 1) :
              log[k].p = log[i].p /\ log[k].e \notin {"begin", "end", "stage"}
  /\ \A i \in 1..Len(log) :
       log[i].e \in {"mkdir", "sips", "encode", "rmTemp", "rmSrc"} =>
         \E b \in AtFor("begin", log[i].p), d \in AtFor("end", log[i].p) :
           b < i /\ i < d
  /\ \A i \in At("stage") : \A j \in 1..Len(log) : j > i => log[j].e = "stage"
  /\ At("stage") # {} => Cardinality(At("begin")) = Cardinality(Queue)
  /\ StagedSeq = SubSeq(ProducedSeq, 1, Len(StagedSeq))
  /\ pc = "done" => StagedSeq = ProducedSeq

\* A run that converted an image, then a video, then staged both outputs.
C8_Witness ==
  /\ pc = "done"
  /\ Len(imagesToProcess) >= 1 /\ Len(videosToProcess) >= 1
  /\ Cardinality(At("stage")) >= 2

\* The temporary file of a pre-conversion event.
TempOf(ev) == [name |-> ev.out, t |-> ev.t]

====
